---- MODULE Spec2Model ----
(***************************************************************************)
(* Model of the BasicBonds `Bonds` space                                   *)
(* (src/lifelib_modelx/assets/BasicBonds/Bonds/__init__.py).               *)
(*                                                                         *)
(* The space projects the cashflows of a portfolio of fixed-rate bonds     *)
(* onto annual periods.  QuantLib objects are modelled by what the space   *)
(* reads from them: a Date by an order-preserving serial YYYYMMDD, a leg   *)
(* by the sequence of (date, amount) events it yields.  Python indices     *)
(* are kept 0-based (t, i); TLA+ sequences are 1-based, so leg[i] of the   *)
(* source is leg[i+1] here and result[t] is result[t+1].                   *)
(***************************************************************************)
EXTENDS Integers, Sequences, FiniteSets, TLC

\* Longest leg (number of cash events) a bond produces in the model.
MaxLeg == 2
\* Largest number of rows of bond_data in the model.
MaxBonds == 2

VARIABLES
    date_init,   \* reference date_init, parsed: <<year, month, day>>
    date_end,    \* reference date_end, parsed: <<year, month, day>>
    bond_data,   \* the bond table: sequence of rows, in index order
    bond_legs,   \* per bond_id, the cash events the QuantLib bond yields
    pc,          \* which cell is being evaluated ("ready": none)
    bond,        \* bond_id argument of the running cashflows/redemptions
    t,           \* local t of step_size / cashflows / redemptions
    i,           \* local i (cashflow index) of cashflows / redemptions
    result,      \* local result of cashflows / redemptions
    added,       \* history: <<event index, bucket>> of every `result[t] +=`
    ncmp,        \* history: comparisons `date_(t) < d_end` made by step_size
    ret          \* outcome of the last call (NoRet while a call runs)

vars == <<date_init, date_end, bond_data, bond_legs, pc, bond, t, i, result,
          added, ncmp, ret>>

inputs == <<date_init, date_end, bond_data, bond_legs>>

-----------------------------------------------------------------------------
(* QuantLib dates *)

\* ql.Date(y, m, d) / ql.Date(str, "%Y-%m-%d"): the date's serial.
ql_Date(s) == s[1] * 10000 + s[2] * 100 + s[3]

IsLeap(y) == (y % 4 = 0 /\ y % 100 # 0) \/ y % 400 = 0

\* Date + ql.Period('1Y'): same day and month of the next year, the 29th of
\* February clamped to the 28th when the next year is not a leap year.
ql_AddYear(d) ==
    LET y  == (d \div 10000) + 1
        m  == (d \div 100) % 100
        dd == d % 100
    IN  y * 10000 + m * 100 + (IF m = 2 /\ dd = 29 /\ ~IsLeap(y) THEN 28 ELSE dd)

RECURSIVE date_(_)
date_(n) ==
    IF n = 0 THEN ql_Date(date_init)
    ELSE ql_AddYear(date_(n - 1))

-----------------------------------------------------------------------------
(* step_size *)

\* Mutant: the scan also steps over a boundary equal to the end date.
step_size_cond_le(n) == date_(n) <= ql_Date(date_end)

\* The loop test of step_size: `if date_(t) < d_end`.
step_size_cond(n) == date_(n) < ql_Date(date_end)

RECURSIVE step_size_from(_)
step_size_from(n) == IF step_size_cond(n) THEN step_size_from(n + 1) ELSE n

step_size == step_size_from(0)

-----------------------------------------------------------------------------
(* Helpers *)

Range(f) == {f[x] : x \in DOMAIN f}

Zeros(n) == [k \in 1..n |-> 0]

RECURSIVE SeqSum(_)
SeqSum(s) == IF s = <<>> THEN 0 ELSE Head(s) + SeqSum(Tail(s))

\* bond_data.index
Index == [k \in 1..Len(bond_data) |-> bond_data[k].bond_id]

\* bond_data.loc[bond_id]
Row(bond_id) == CHOOSE r \in Range(bond_data) : r.bond_id = bond_id

\* fixed_rate_bond(bond_id).cashflows(): every cash event of the bond.
leg_cashflows(bond_id) == bond_legs[bond_id]

IsRedemption(e) == e.kind = "redemption"

\* fixed_rate_bond(bond_id).redemptions(): the redemption events only.
leg_redemptions(bond_id) == SelectSeq(bond_legs[bond_id], IsRedemption)

Start(n) == [t |-> 0, i |-> 0, result |-> Zeros(n), status |-> "running"]

-----------------------------------------------------------------------------
(* cashflows *)

\* Mutant: the upper boundary of a period is taken as inclusive.
cashflows_step_incl(leg, s) ==
    IF s.t >= step_size THEN [s EXCEPT !.status = "returned"]
    ELSE IF ~(s.i < Len(leg)) THEN [s EXCEPT !.t = @ + 1]
    ELSE IF s.i > 0 /\ ~(leg[s.i].date <= leg[s.i + 1].date)
         THEN [s EXCEPT !.status = "AssertionError"]
    ELSE IF date_(s.t) <= leg[s.i + 1].date /\ leg[s.i + 1].date <= date_(s.t + 1)
         THEN [s EXCEPT !.result[s.t + 1] = @ + leg[s.i + 1].amount, !.i = @ + 1]
    ELSE IF date_(s.t + 1) <= leg[s.i + 1].date THEN [s EXCEPT !.t = @ + 1]
    ELSE [s EXCEPT !.i = @ + 1]

\* Mutant: the lower boundary of a period is not tested.
cashflows_step_nolower(leg, s) ==
    IF s.t >= step_size THEN [s EXCEPT !.status = "returned"]
    ELSE IF ~(s.i < Len(leg)) THEN [s EXCEPT !.t = @ + 1]
    ELSE IF s.i > 0 /\ ~(leg[s.i].date <= leg[s.i + 1].date)
         THEN [s EXCEPT !.status = "AssertionError"]
    ELSE IF leg[s.i + 1].date < date_(s.t + 1)
         THEN [s EXCEPT !.result[s.t + 1] = @ + leg[s.i + 1].amount, !.i = @ + 1]
    ELSE IF date_(s.t + 1) <= leg[s.i + 1].date THEN [s EXCEPT !.t = @ + 1]
    ELSE [s EXCEPT !.i = @ + 1]

\* Mutant: the event index is reset when the period advances.
cashflows_step_reset(leg, s) ==
    IF s.t >= step_size THEN [s EXCEPT !.status = "returned"]
    ELSE IF ~(s.i < Len(leg)) THEN [s EXCEPT !.t = @ + 1, !.i = 0]
    ELSE IF s.i > 0 /\ ~(leg[s.i].date <= leg[s.i + 1].date)
         THEN [s EXCEPT !.status = "AssertionError"]
    ELSE IF date_(s.t) <= leg[s.i + 1].date /\ leg[s.i + 1].date < date_(s.t + 1)
         THEN [s EXCEPT !.result[s.t + 1] = @ + leg[s.i + 1].amount, !.i = @ + 1]
    ELSE IF date_(s.t + 1) <= leg[s.i + 1].date THEN [s EXCEPT !.t = @ + 1, !.i = 0]
    ELSE [s EXCEPT !.i = @ + 1]

\* One pass through the loops of cashflows: the `for` test, the `while`
\* test, the ordering assertion, the bucket test, the break, `i += 1`.
cashflows_step(leg, s) ==
    IF s.t >= step_size THEN [s EXCEPT !.status = "returned"]
    ELSE IF ~(s.i < Len(leg)) THEN [s EXCEPT !.t = @ + 1]
    ELSE IF s.i > 0 /\ ~(leg[s.i].date <= leg[s.i + 1].date)
         THEN [s EXCEPT !.status = "AssertionError"]
    ELSE IF date_(s.t) <= leg[s.i + 1].date /\ leg[s.i + 1].date < date_(s.t + 1)
         THEN [s EXCEPT !.result[s.t + 1] = @ + leg[s.i + 1].amount, !.i = @ + 1]
    ELSE IF date_(s.t + 1) <= leg[s.i + 1].date THEN [s EXCEPT !.t = @ + 1]
    ELSE [s EXCEPT !.i = @ + 1]

RECURSIVE cashflows_run(_, _)
cashflows_run(leg, s) ==
    IF s.status # "running" THEN s ELSE cashflows_run(leg, cashflows_step(leg, s))

\* cashflows(bond_id), evaluated to its outcome.
cashflows(bond_id) == cashflows_run(leg_cashflows(bond_id), Start(step_size))

-----------------------------------------------------------------------------
(* redemptions *)

\* Mutant: the upper boundary of a period is taken as inclusive.
redemptions_step_incl(leg, s) ==
    IF s.t >= step_size THEN [s EXCEPT !.status = "returned"]
    ELSE IF ~(s.i < Len(leg)) THEN [s EXCEPT !.t = @ + 1]
    ELSE IF date_(s.t) <= leg[s.i + 1].date /\ leg[s.i + 1].date <= date_(s.t + 1)
         THEN [s EXCEPT !.result[s.t + 1] = @ + leg[s.i + 1].amount, !.i = @ + 1]
    ELSE IF date_(s.t + 1) <= leg[s.i + 1].date THEN [s EXCEPT !.t = @ + 1]
    ELSE [s EXCEPT !.i = @ + 1]

\* One pass through the loops of redemptions (no ordering assertion).
redemptions_step(leg, s) ==
    IF s.t >= step_size THEN [s EXCEPT !.status = "returned"]
    ELSE IF ~(s.i < Len(leg)) THEN [s EXCEPT !.t = @ + 1]
    ELSE IF date_(s.t) <= leg[s.i + 1].date /\ leg[s.i + 1].date < date_(s.t + 1)
         THEN [s EXCEPT !.result[s.t + 1] = @ + leg[s.i + 1].amount, !.i = @ + 1]
    ELSE IF date_(s.t + 1) <= leg[s.i + 1].date THEN [s EXCEPT !.t = @ + 1]
    ELSE [s EXCEPT !.i = @ + 1]

RECURSIVE redemptions_run(_, _)
redemptions_run(leg, s) ==
    IF s.status # "running" THEN s ELSE redemptions_run(leg, redemptions_step(leg, s))

\* redemptions(bond_id), evaluated to its outcome.
redemptions(bond_id) == redemptions_run(leg_redemptions(bond_id), Start(step_size))

-----------------------------------------------------------------------------
(* cashflows_total, redemptions_total *)

\* Mutant: `result[t] = cashflows(i)[t]` instead of `+=`.
cashflows_total_add_assign(acc, x) == x

\* `result[t] += cashflows(i)[t]`
cashflows_total_add(acc, x) == acc + x

\* The loops of cashflows_total: n is t, j the position in bond_data.index.
\* An exception of cashflows(i) ends the call.
RECURSIVE cashflows_total_loop(_, _, _)
cashflows_total_loop(n, j, res) ==
    IF n >= step_size THEN [status |-> "returned", value |-> res]
    ELSE IF j > Len(Index) THEN cashflows_total_loop(n + 1, 1, res)
    ELSE LET c == cashflows(Index[j])
         IN  IF c.status # "returned" THEN [status |-> c.status, value |-> <<>>]
             ELSE cashflows_total_loop(n, j + 1,
                     [res EXCEPT ![n + 1] = cashflows_total_add(@, c.result[n + 1])])

cashflows_total == cashflows_total_loop(0, 1, Zeros(step_size))

\* The loops of redemptions_total; redemptions(i) raises nothing.
RECURSIVE redemptions_total_loop(_, _, _)
redemptions_total_loop(n, j, res) ==
    IF n >= step_size THEN [status |-> "returned", value |-> res]
    ELSE IF j > Len(Index) THEN redemptions_total_loop(n + 1, 1, res)
    ELSE LET c == redemptions(Index[j])
         IN  redemptions_total_loop(n, j + 1,
                 [res EXCEPT ![n + 1] = @ + c.result[n + 1]])

redemptions_total == redemptions_total_loop(0, 1, Zeros(step_size))

-----------------------------------------------------------------------------
(* schedule *)

\* The arguments schedule(bond_id) passes to ql.Schedule.
schedule(bond_id) ==
    [ issue_date    |-> ql_Date(Row(bond_id).issue_date),
      maturity_date |-> ql_Date(Row(bond_id).maturity_date),
      tenor         |-> IF Row(bond_id).tenor = "6Y" THEN "Semiannual" ELSE "Annual",
      calendar      |-> "UnitedStates.Settlement",
      convention    |-> "Unadjusted",
      terminationDateConvention |-> "Unadjusted",
      rule          |-> "Backward",
      endOfMonth    |-> FALSE ]

-----------------------------------------------------------------------------
(* Inputs *)

InitDates == {<<2022, 1, 1>>, <<2024, 2, 29>>}

EndDates == {<<2022, 1, 1>>, <<2024, 1, 1>>, <<2024, 6, 15>>}

EventDates == {20210615, 20230101, 20230615, 20240229}

\* Amounts of coupon events.
Amounts == {1, 2}

\* Amounts of redemption events.
FaceValues == {4}

Tenors == {"6M", "1Y"}

Events ==
    [date : EventDates, amount : Amounts, kind : {"coupon"}]
        \cup [date : EventDates, amount : FaceValues, kind : {"redemption"}]

Legs == UNION {[1..n -> Events] : n \in 0..MaxLeg}

Ev(d, a, k) == [date |-> d, amount |-> a, kind |-> k]

\* Legs of the bonds of a portfolio of several bonds.
PortfolioLegs ==
    { <<>>,
      <<Ev(20230615, 4, "redemption")>>,
      <<Ev(20230101, 1, "coupon"), Ev(20230615, 4, "redemption")>>,
      <<Ev(20210615, 1, "coupon"), Ev(20230615, 1, "coupon"),
        Ev(20240229, 4, "redemption")>>,
      <<Ev(20230615, 1, "coupon"), Ev(20230101, 4, "redemption")>> }

\* Odd bond ids pay annually, even ones twice a year.
SampleTenor(id) == IF id % 2 = 1 THEN "1Y" ELSE "6M"

BondRow(id, tn) ==
    [bond_id |-> id, issue_date |-> <<2017, 12, 12>>,
     maturity_date |-> <<2024, 2, 29>>, tenor |-> tn]

Perms(S) == {f \in [1..Cardinality(S) -> S] : \A a, b \in DOMAIN f : f[a] = f[b] => a = b}

NoRet == [fn |-> "none", bond |-> 0, status |-> "none", value |-> <<>>]

InitLocals ==
    /\ pc = "ready"
    /\ bond = 0
    /\ t = 0
    /\ i = 0
    /\ result = <<>>
    /\ added = <<>>
    /\ ncmp = 0
    /\ ret = NoRet

\* A table of one bond, with every leg up to MaxLeg events.
InitSingleBond ==
    /\ bond_data = <<BondRow(1, SampleTenor(1))>>
    /\ bond_legs \in [{1} -> Legs]

\* A table of up to MaxBonds bonds in any index order.
InitPortfolio ==
    \E ids \in SUBSET (1..MaxBonds) :
        /\ \E p \in Perms(ids) :
              bond_data = [k \in DOMAIN p |-> BondRow(p[k], SampleTenor(p[k]))]
        /\ bond_legs \in [ids -> PortfolioLegs]

Init ==
    /\ date_init \in InitDates
    /\ date_end \in EndDates
    /\ (InitSingleBond \/ InitPortfolio)
    /\ InitLocals

-----------------------------------------------------------------------------
(* Actions *)

BondIds == {bond_data[k].bond_id : k \in 1..Len(bond_data)}

ResetLocals ==
    /\ bond' = 0
    /\ t' = 0
    /\ i' = 0
    /\ result' = <<>>
    /\ added' = <<>>
    /\ ncmp' = 0

\* step_size() is called: t = 0.
CallStepSize ==
    /\ pc = "ready"
    /\ pc' = "step_size"
    /\ ResetLocals
    /\ ret' = NoRet
    /\ UNCHANGED inputs

\* One iteration of `while True` in step_size.
StepSizeLoop ==
    /\ pc = "step_size"
    /\ ncmp' = ncmp + 1
    /\ IF step_size_cond(t)
       THEN /\ t' = t + 1
            /\ UNCHANGED <<pc, ret>>
       ELSE /\ pc' = "ready"
            /\ ret' = [fn |-> "step_size", bond |-> 0, status |-> "returned", value |-> t]
            /\ UNCHANGED t
    /\ UNCHANGED <<inputs, bond, i, result, added>>

\* cashflows(bond_id) is called: result = [0] * step_size(), i = 0.
CallCashflows ==
    /\ pc = "ready"
    /\ \E b \in BondIds :
          /\ bond' = b
          /\ pc' = "cashflows"
          /\ t' = 0
          /\ i' = 0
          /\ result' = Zeros(step_size)
          /\ added' = <<>>
          /\ ncmp' = 0
    /\ ret' = NoRet
    /\ UNCHANGED inputs

Sweep(s2, fn) ==
    /\ t' = s2.t
    /\ i' = s2.i
    /\ result' = s2.result
    /\ added' = IF s2.result # result THEN Append(added, <<i, t>>) ELSE added
    /\ IF s2.status = "running"
       THEN UNCHANGED <<pc, ret>>
       ELSE /\ pc' = "ready"
            /\ ret' = [fn |-> fn, bond |-> bond, status |-> s2.status,
                       value |-> IF s2.status = "returned" THEN s2.result ELSE <<>>]
    /\ UNCHANGED <<inputs, bond, ncmp>>

\* One pass through the loops of cashflows.
CashflowsLoop ==
    /\ pc = "cashflows"
    /\ Sweep(cashflows_step(leg_cashflows(bond),
                 [t |-> t, i |-> i, result |-> result, status |-> "running"]),
             "cashflows")

\* redemptions(bond_id) is called.
CallRedemptions ==
    /\ pc = "ready"
    /\ \E b \in BondIds :
          /\ bond' = b
          /\ pc' = "redemptions"
          /\ t' = 0
          /\ i' = 0
          /\ result' = Zeros(step_size)
          /\ added' = <<>>
          /\ ncmp' = 0
    /\ ret' = NoRet
    /\ UNCHANGED inputs

\* One pass through the loops of redemptions.
RedemptionsLoop ==
    /\ pc = "redemptions"
    /\ Sweep(redemptions_step(leg_redemptions(bond),
                 [t |-> t, i |-> i, result |-> result, status |-> "running"]),
             "redemptions")

CallCashflowsTotal ==
    /\ pc = "ready"
    /\ ret' = [fn |-> "cashflows_total", bond |-> 0,
               status |-> cashflows_total.status, value |-> cashflows_total.value]
    /\ ResetLocals
    /\ UNCHANGED <<inputs, pc>>

CallRedemptionsTotal ==
    /\ pc = "ready"
    /\ ret' = [fn |-> "redemptions_total", bond |-> 0,
               status |-> redemptions_total.status, value |-> redemptions_total.value]
    /\ ResetLocals
    /\ UNCHANGED <<inputs, pc>>

CallSchedule ==
    /\ pc = "ready"
    /\ \E b \in BondIds :
          ret' = [fn |-> "schedule", bond |-> b, status |-> "returned",
                  value |-> schedule(b)]
    /\ ResetLocals
    /\ UNCHANGED <<inputs, pc>>

Next ==
    \/ CallStepSize
    \/ StepSizeLoop
    \/ CallCashflows
    \/ CashflowsLoop
    \/ CallRedemptions
    \/ RedemptionsLoop
    \/ CallCashflowsTotal
    \/ CallRedemptionsTotal
    \/ CallSchedule

Spec == Init /\ [][Next]_vars

-----------------------------------------------------------------------------
(* Properties *)

Sorted(leg) == \A k \in 1..(Len(leg) - 1) : leg[k].date <= leg[k + 1].date

\* Sum of the amounts of the events of leg dated in [lo, hi).
RECURSIVE BucketSum(_, _, _)
BucketSum(leg, lo, hi) ==
    IF leg = <<>> THEN 0
    ELSE (IF lo <= Head(leg).date /\ Head(leg).date < hi THEN Head(leg).amount ELSE 0)
         + BucketSum(Tail(leg), lo, hi)

\* Sum over the bonds of ids of element k of the bond's vector f[b].
RECURSIVE SumAt(_, _, _)
SumAt(f, ids, k) ==
    IF ids = {} THEN 0
    ELSE LET b == CHOOSE x \in ids : TRUE
         IN  f[b][k] + SumAt(f, ids \ {b}, k)

d_end == ql_Date(date_end)

\* C1: for a leg non-decreasing in date, cashflows(bond_id) returns a vector
\* of length N = step_size() whose element t is the sum of the amounts of
\* exactly the events dated in [date_(t), date_(t+1)).
C1_CashflowsBuckets ==
    (ret.fn = "cashflows" /\ Sorted(leg_cashflows(ret.bond))) =>
        /\ ret.status = "returned"
        /\ Len(ret.value) = step_size
        /\ \A k \in 0..(step_size - 1) :
              ret.value[k + 1] = BucketSum(leg_cashflows(ret.bond), date_(k), date_(k + 1))

\* cashflows returned for a sorted leg whose events fell into two periods.
C1_Witness ==
    /\ ret.fn = "cashflows"
    /\ Sorted(leg_cashflows(ret.bond))
    /\ Len(ret.value) = 3
    /\ ret.value[2] > 0
    /\ ret.value[3] > 0

\* C2: for every leg that is not non-decreasing in date, and every
\* calendar, cashflows(bond_id) fails with the ordering assertion and never
\* returns a vector.
C2_UnsortedAlwaysFails ==
    (ret.fn = "cashflows" /\ ~Sorted(leg_cashflows(ret.bond))) =>
        ret.status = "AssertionError"

\* C3: when the end date is not before the valuation date, step_size()
\* returns the smallest N with date_(N) >= end date.
C3_StepSizeSmallest ==
    (ret.fn = "step_size" /\ d_end >= ql_Date(date_init)) =>
        /\ ret.status = "returned"
        /\ ret.value >= 0
        /\ date_(ret.value) >= d_end
        /\ \A k \in 0..(ret.value - 1) : date_(k) < d_end

\* step_size returned N = 2 with date_(2) equal to the end date.
C3_Witness ==
    /\ ret.fn = "step_size"
    /\ d_end >= ql_Date(date_init)
    /\ ret.value = 2
    /\ date_(2) = d_end

\* C4: for a leg sorted by date, the elements of the vector cashflows
\* returns sum to the amounts of the events dated in [date_(0), date_(N));
\* no event dated before date_(0) or at or after date_(N) is added to a
\* bucket.
C4_SumPreserved ==
    (ret.fn = "cashflows" /\ Sorted(leg_cashflows(ret.bond))) =>
        /\ ret.status = "returned"
        /\ SeqSum(ret.value)
              = BucketSum(leg_cashflows(ret.bond), date_(0), date_(step_size))
        /\ \A a \in 1..Len(added) :
              /\ date_(0) <= leg_cashflows(ret.bond)[added[a][1] + 1].date
              /\ leg_cashflows(ret.bond)[added[a][1] + 1].date < date_(step_size)

\* cashflows returned for a sorted leg with an event before date_(0), an
\* event inside the calendar and an event at or after date_(N).
C4_Witness ==
    /\ ret.fn = "cashflows"
    /\ Sorted(leg_cashflows(ret.bond))
    /\ step_size > 0
    /\ SeqSum(ret.value) > 0
    /\ \E e \in Range(leg_cashflows(ret.bond)) : e.date < date_(0)
    /\ \E e \in Range(leg_cashflows(ret.bond)) : e.date >= date_(step_size)

\* C5: cashflows_total() returns a vector of length N whose element t is
\* the sum over the bond ids of cashflows(id)[t], whatever the order of
\* the ids in the table, and N zeros for an empty table; redemptions_total()
\* does the same over redemptions(id).  (The call fails when a
\* cashflows(id) it evaluates fails.)
C5_Totals ==
    /\ ret.fn = "cashflows_total" =>
          IF \A b \in BondIds : cashflows(b).status = "returned"
          THEN /\ ret.status = "returned"
               /\ Len(ret.value) = step_size
               /\ \A k \in 1..step_size :
                     ret.value[k] = SumAt([b \in BondIds |-> cashflows(b).result], BondIds, k)
          ELSE ret.status = "AssertionError"
    /\ ret.fn = "redemptions_total" =>
          /\ ret.status = "returned"
          /\ Len(ret.value) = step_size
          /\ \A k \in 1..step_size :
                ret.value[k] = SumAt([b \in BondIds |-> redemptions(b).result], BondIds, k)

\* cashflows_total returned for a table of two bonds, listed in descending
\* id order, that both pay in the same period.
C5_Witness ==
    /\ ret.fn = "cashflows_total"
    /\ ret.status = "returned"
    /\ Len(bond_data) = 2
    /\ Index[1] > Index[2]
    /\ \E k \in 1..step_size :
          /\ cashflows(Index[1]).result[k] > 0
          /\ cashflows(Index[2]).result[k] > 0
          /\ ret.value[k] = cashflows(Index[1]).result[k] + cashflows(Index[2]).result[k]

\* C6: when the end date is equal to or earlier than the valuation date,
\* step_size() returns 0 after one comparison, and cashflows(bond_id) and
\* redemptions(bond_id) return the empty vector whatever the events are.
C6_DegenerateCalendar ==
    d_end <= ql_Date(date_init) =>
        /\ ret.fn = "step_size" => (ret.value = 0 /\ ncmp = 1)
        /\ ret.fn \in {"cashflows", "redemptions"} =>
              (ret.status = "returned" /\ ret.value = <<>>)

\* cashflows returned for a bond with events, the end date being earlier
\* than the valuation date.
C6_Witness ==
    /\ d_end < ql_Date(date_init)
    /\ ret.fn = "cashflows"
    /\ Len(leg_cashflows(ret.bond)) >= 2
    /\ ret.value = <<>>

\* C7: for a redemption leg of one event of amount A, redemptions(bond_id)
\* returns a vector of length N with A at the index k of the period
\* [date_(k), date_(k+1)) holding the event's date and 0 elsewhere, and all
\* zeros when the date is outside [date_(0), date_(N)); at most one element
\* is nonzero.
C7_SingleRedemption ==
    (ret.fn = "redemptions" /\ Len(leg_redemptions(ret.bond)) = 1) =>
        LET e == leg_redemptions(ret.bond)[1]
        IN  /\ ret.status = "returned"
            /\ Len(ret.value) = step_size
            /\ \A k \in 0..(step_size - 1) :
                  ret.value[k + 1] =
                      IF date_(k) <= e.date /\ e.date < date_(k + 1) THEN e.amount ELSE 0
            /\ (e.date < date_(0) \/ e.date >= date_(step_size)) =>
                  \A k \in 1..step_size : ret.value[k] = 0
            /\ Cardinality({k \in 1..step_size : ret.value[k] # 0}) <= 1

\* redemptions returned <<0, A, 0>> for a single redemption dated on the
\* boundary date_(1).
C7_Witness ==
    /\ ret.fn = "redemptions"
    /\ Len(leg_redemptions(ret.bond)) = 1
    /\ leg_redemptions(ret.bond)[1].date = date_(1)
    /\ ret.value = <<0, leg_redemptions(ret.bond)[1].amount, 0>>

InSweep == pc \in {"cashflows", "redemptions"}

CurLeg == IF pc = "cashflows" THEN leg_cashflows(bond) ELSE leg_redemptions(bond)

C8_Step ==
    InSweep =>
        /\ i' >= i
        /\ i' <= Len(CurLeg)
        /\ (/\ pc' = pc
            /\ t < step_size
            /\ i < Len(CurLeg)
            /\ date_(t + 1) <= CurLeg[i + 1].date) => (i' = i /\ t' = t + 1)
        /\ \A a, b \in 1..Len(added') :
              a < b => (added'[a][1] < added'[b][1] /\ added'[a][2] <= added'[b][2])

\* C8: during the sweep of cashflows and redemptions the event index i never
\* decreases and never exceeds the number of events; when the inner loop
\* stops on an event dated at or after date_(t+1), i is unchanged and the
\* period advances; every event is added to at most one bucket, and the
\* buckets that receive amounts are non-decreasing in event order.
C8_SweepMonotone == [][C8_Step]_vars

\* A sweep put two events into two different buckets.
C8_Witness ==
    /\ ret.fn \in {"cashflows", "redemptions"}
    /\ Len(added) = 2
    /\ added[1][2] < added[2][2]

\* C9: redemptions(bond_id) applied to a redemption leg that is not
\* non-decreasing in date fails with an ordering error instead of returning
\* a vector.
C9_RedemptionsChecked ==
    (ret.fn = "redemptions" /\ ~Sorted(leg_redemptions(ret.bond))) =>
        ret.status = "AssertionError"

\* C10: schedule(bond_id) builds the schedule with a semiannual period for
\* a record whose tenor is '6M' and an annual period for tenor '1Y'.
C10_TenorSelectsPeriod ==
    ret.fn = "schedule" =>
        /\ Row(ret.bond).tenor = "6M" => ret.value.tenor = "Semiannual"
        /\ Row(ret.bond).tenor = "1Y" => ret.value.tenor = "Annual"

====
